---- MODULE Spec2Model ----
(***************************************************************************)
(* js8rs: the audio capture -> ring buffer -> FFT -> colour row ->         *)
(* waterfall pipeline of src/app/{mod,audio,ui,visualization}.rs.          *)
(*                                                                         *)
(* Threads: the UI thread (update_ui: the start button and one render      *)
(* frame) and one audio thread per input stream, running that stream's     *)
(* input_callback.  Shared state: the three Arc<Mutex<..>> fields          *)
(* audio_data, row_colors and max_value of Js8App.                         *)
(*                                                                         *)
(* Numbers.  Time is counted in ticks of 10 ms.  Samples are integers; a   *)
(* magnitude (Complex::norm, an f32) is kept to integer resolution.        *)
(***************************************************************************)
EXTENDS Integers, Sequences, FiniteSets

\* ---------------------------------------------------------------- bounds
\* Transform length (mod.rs:60 computes ceil(sample_rate / 6.25) = 7680).
fft_size == 2
\* Row capacity of the waterfall (the literal 100 of audio.rs:150 and
\* of visualization.rs, line 51).
MaxRows == 2
\* Longest frame (number of f32 values) one callback delivers.
MaxDataLen == 3
\* Number of input streams "Start Audio Stream" creates in one run.
MaxStreams == 2
\* Number of callbacks in an observed run of evenly spaced callbacks.
RunLength == 10
\* Most input devices the host enumerates (mod.rs:52).
MaxDevices == 2
\* Longest frame handed to one call of process_audio_data when the function
\* is examined call by call.
MaxCallLen == 4
\* Most interleaved channels a device delivers (config.channels()).
MaxChannels == 3

\* Duration::from_secs_f32(0.16), in ticks of 10 ms.
Gate == 16

\* Values one channel sample takes.
SampleVals == {0, 2}

\* ---------------------------------------------------------------- helpers
Min(a, b) == IF a <= b THEN a ELSE b

Max(a, b) == IF a >= b THEN a ELSE b

\* The last n elements of s (all of s when it is shorter).
LastN(n, s) == IF Len(s) <= n THEN s ELSE SubSeq(s, Len(s) - n + 1, Len(s))

\* Sequences over S of length 0..n.
SeqsUpTo(S, n) == UNION {[1..k -> S] : k \in 0..n}

\* All frames a callback can be handed.
Frames == SeqsUpTo(SampleVals, MaxDataLen)

\* ------------------------------------------------- process_audio_data, part 1
\* data.chunks(2): consecutive groups of two, the last one shorter when the
\* length is odd.
Chunks(data) ==
    [i \in 1..((Len(data) + 1) \div 2) |->
        SubSeq(data, 2 * i - 1, Min(2 * i, Len(data)))]

\* MonoSample taking the left channel alone.
MonoSampleLeft(samples) == samples[1]

\* (samples[0] + samples[1]) / 2.0
MonoSample(samples) == (samples[1] + samples[2]) \div 2

\* if audio_data.len() == fft_size { audio_data.pop_front(); }
PopFront(buf) == IF Len(buf) = fft_size THEN Tail(buf) ELSE buf

\* The for loop of process_audio_data over the chunks.  st.buf is
\* audio_data, st.pushed the samples push_back'ed by this call so far,
\* st.panic whether samples[1] was indexed out of bounds (a chunk of one
\* sample): the panic unwinds after the pop_front of that iteration.
RECURSIVE PushSamples(_, _)
PushSamples(chunks, st) ==
    IF chunks = <<>> THEN st
    ELSE LET samples == Head(chunks)
             popped == PopFront(st.buf)
         IN  IF Len(samples) < 2
             THEN [buf |-> popped, pushed |-> st.pushed, panic |-> TRUE]
             ELSE PushSamples(Tail(chunks),
                     [buf |-> Append(popped, MonoSample(samples)),
                      pushed |-> Append(st.pushed, MonoSample(samples)),
                      panic |-> FALSE])

\* ------------------------------------------------- process_audio_data, part 2
\* 2*cos(2*pi*j/n), an integer for the transform lengths 1, 2, 3, 4 and 6.
Cos2(j, n) ==
    LET r == j % n
    IN  CASE n = 1 -> 2
          [] n = 2 -> IF r = 0 THEN 2 ELSE 0 - 2
          [] n = 3 -> IF r = 0 THEN 2 ELSE 0 - 1
          [] n = 4 -> IF r = 0 THEN 2 ELSE IF r = 2 THEN 0 - 2 ELSE 0
          [] n = 6 -> IF r = 0 THEN 2
                      ELSE IF r = 3 THEN 0 - 2
                      ELSE IF r \in {1, 5} THEN 1 ELSE 0 - 1

RECURSIVE SumTo(_, _)
SumTo(f, n) == IF n = 0 THEN 0 ELSE f[n] + SumTo(f, n - 1)

\* re^2 + im^2 of bin k of the forward DFT of the real sequence x:
\* sum over m, n of x[m] * x[n] * cos(2*pi*k*(m-n)/N).
Power(x, k) ==
    LET N == Len(x)
        inner(m) == SumTo([n \in 1..N |->
                        x[m] * x[n] * Cos2(k * (m - n + N), N)], N)
    IN  SumTo([m \in 1..N |-> inner(m)], N) \div 2

\* Largest r with r*r <= p.
ISqrt(p) == CHOOSE r \in 0..p : r * r <= p /\ (r + 1) * (r + 1) > p

\* fft.process_with_scratch followed by c.norm() for every bin.
raw_values(buf) == [k \in 1..Len(buf) |-> ISqrt(Power(buf, k - 1))]

\* raw_values.iter().cloned().fold(f32::MIN, f32::max); the buffer is never
\* empty here and every norm is >= 0.
RECURSIVE FoldMax(_, _)
FoldMax(f, n) == IF n = 0 THEN 0 ELSE Max(f[n], FoldMax(f, n - 1))

SpectrumMax(raw) == FoldMax(raw, Len(raw))

\* ((x / max_value) * 255.0) as u8.  0.0 / 0.0 is NaN and NaN as u8 is 0;
\* the quotient is otherwise in [0, 1].
Intensity(x, peak) == IF peak = 0 THEN 0 ELSE (x * 255) \div peak

\* Colors with the last bin left out.
ColorsShort(raw) ==
    [k \in 1..(Len(raw) - 1) |-> Intensity(raw[k], SpectrumMax(raw))]

\* The row of Color32::from_rgb(intensity, intensity, intensity), one per
\* bin; a colour is represented by its intensity.
Colors(raw) == [k \in 1..Len(raw) |-> Intensity(raw[k], SpectrumMax(raw))]

\* PushRow without the eviction of the oldest row.
PushRowNoEvict(rows, row) == Append(rows, row)

\* row_colors.push(colors); if row_colors.len() > 100 { row_colors.remove(0); }
PushRow(rows, row) ==
    LET appended == Append(rows, row)
    IN  IF Len(appended) > MaxRows THEN Tail(appended) ELSE appended

\* The f32 process_audio_data returns after a transform (audio.rs:154).
ReturnedPeak(global_max_value, raw) == SpectrumMax(raw)

\* BufferFull for any buffer that holds a sample.
BufferFullEarly(buf) == Len(buf) > 0

\* BufferFull comparing with > instead of ==.
BufferOverfull(buf) == Len(buf) > fft_size

\* if audio_data.len() == fft_size (audio.rs:124, app.rs:148)
BufferFull(buf) == Len(buf) = fft_size

\* process_audio_data as a whole.  Returns the new audio_data and
\* row_colors, the f32 it returns (stored into max_value by the caller),
\* the samples it pushed, the row it pushed (<<>> when none), whether it
\* evaluated a division by 0.0 (x / max_value, audio.rs:138) and whether it
\* panicked.
process_audio_data(global_max_value, data, buf, rows) ==
    LET after == PushSamples(Chunks(data),
                    [buf |-> buf, pushed |-> <<>>, panic |-> FALSE])
        raw == raw_values(after.buf)
    IN  IF after.panic
        THEN [audio_data |-> after.buf, row_colors |-> rows,
              ret |-> global_max_value, pushed |-> after.pushed,
              row |-> <<>>, div0 |-> FALSE, panic |-> TRUE]
        ELSE IF BufferFull(after.buf)
        THEN [audio_data |-> after.buf,
              row_colors |-> PushRow(rows, Colors(raw)),
              ret |-> ReturnedPeak(global_max_value, raw),
              pushed |-> after.pushed,
              row |-> <<Colors(raw)>>, div0 |-> SpectrumMax(raw) = 0,
              panic |-> FALSE]
        ELSE [audio_data |-> after.buf, row_colors |-> rows,
              ret |-> global_max_value, pushed |-> after.pushed,
              row |-> <<>>, div0 |-> FALSE, panic |-> FALSE]

\* --------------------------------------- process_audio_data of src/app.rs
\* 1000 * log10(n), rounded, for n = 1..16.
Log10Milli == <<0, 301, 477, 602, 699, 778, 845, 903, 954, 1000, 1041,
                1079, 1114, 1146, 1176, 1204>>

\* ((v + 1.0).log10() / (global_max_value + 1.0).log10() * 255.0) as u8
\* (app.rs:167-169).  With global_max_value = 0.0 the divisor is 0.0:
\* 0.0 / 0.0 is NaN and NaN as u8 is 0; a positive quotient is +inf and
\* the cast saturates at 255, as it does for any product above 255.
LogIntensity(v, global_max_value) ==
    LET log_value == Log10Milli[v + 1]
        divisor == Log10Milli[global_max_value + 1]
    IN  IF divisor = 0 THEN (IF log_value = 0 THEN 0 ELSE 255)
        ELSE Min(255, (log_value * 255) \div divisor)

\* The row of Color32::from_rgb(intensity, 0, 0), represented by the
\* intensities (app.rs:164-172).
LogColors(raw, global_max_value) ==
    [k \in 1..Len(raw) |-> LogIntensity(raw[k], global_max_value)]

\* row_colors.clear(); row_colors.push(..) (app.rs:162-163)
ClearAndPush(rows, row) == <<row>>

\* if max_value > global_max_value { max_value } else { global_max_value }
\* (app.rs:175-179)
LargerPeak(global_max_value, raw) == Max(SpectrumMax(raw), global_max_value)

\* process_audio_data of app.rs:131-182, with the record of the modular
\* process_audio_data.  The loop over data.chunks(2) is the same code
\* (app.rs:139-145).
app_process_audio_data(global_max_value, data, buf, rows) ==
    LET after == PushSamples(Chunks(data),
                    [buf |-> buf, pushed |-> <<>>, panic |-> FALSE])
        raw == raw_values(after.buf)
        row == LogColors(raw, global_max_value)
    IN  IF after.panic
        THEN [audio_data |-> after.buf, row_colors |-> rows,
              ret |-> global_max_value, pushed |-> after.pushed,
              row |-> <<>>, div0 |-> FALSE, panic |-> TRUE]
        ELSE IF BufferFull(after.buf)
        THEN [audio_data |-> after.buf,
              row_colors |-> ClearAndPush(rows, row),
              ret |-> LargerPeak(global_max_value, raw),
              pushed |-> after.pushed,
              row |-> <<row>>, div0 |-> global_max_value = 0,
              panic |-> FALSE]
        ELSE [audio_data |-> after.buf, row_colors |-> rows,
              ret |-> global_max_value, pushed |-> after.pushed,
              row |-> <<>>, div0 |-> FALSE, panic |-> FALSE]

\* ---------------------------------------------------------------- state
Streams == 1..MaxStreams

\* Owners of a mutex: 0 is "unlocked", a stream id is that stream's audio
\* thread, UiThread the thread running update_ui.
UiThread == MaxStreams + 1

Mutexes == {"audio_data", "row_colors", "max_value"}

VARIABLES
    audio_data,     \* Js8App.audio_data: VecDeque<f32>
    row_colors,     \* Js8App.row_colors: Vec<Vec<Color32>>
    max_value,      \* Js8App.max_value: f32
    lock_owner,     \* per mutex, the thread holding its guard (0: none)
    poisoned,       \* the mutexes a panic has poisoned
    stream,         \* Js8App.stream: 0 is None, else the id of the handle
    stream_state,   \* per stream: "unbuilt", "playing" or "dropped"
    elapsed,        \* per stream: last_update.elapsed(), capped at Gate
    pc,             \* per stream: where its audio thread is
    ui_pc,          \* where the UI thread is
    delivered,      \* history: last fft_size mono slots handed to callbacks
    pushed,         \* history: last fft_size samples push_back'ed
    rows_hist,      \* history: last MaxRows rows pushed to row_colors
    rows_count,     \* history: rows pushed so far, capped at MaxRows + 1
    since_row,      \* per stream: ticks since its last row push (-1: none)
    arrived_gap,    \* per stream: since_row when its current callback began
    push_gap,       \* per stream: arrived_gap of its latest row push
    obs,            \* observer of a run of evenly spaced callbacks
    devices,        \* Js8App.devices: the number of input devices
    selected_device_index,  \* Js8App.selected_device_index
    last_start,     \* history: how the latest start_audio_stream ended
    errored,        \* history: streams whose error_callback has run
    variant,        \* which of the two sources of the program is running
    call            \* history: the latest call of process_audio_data

vars == <<audio_data, row_colors, max_value, lock_owner, poisoned, stream,
          stream_state, elapsed, pc, ui_pc, delivered, pushed, rows_hist,
          rows_count, since_row, arrived_gap, push_gap, obs, devices,
          selected_device_index, last_start, errored, variant, call>>

core == <<audio_data, row_colors, max_value>>

locks == <<lock_owner, poisoned>>

\* What only start_audio_stream, the device list and the stream's error
\* callback touch.
host == <<devices, selected_device_index, last_start, errored, variant>>

session == <<stream, stream_state, host>>

history == <<delivered, pushed, rows_hist, rows_count, call>>

gaps == <<since_row, arrived_gap, push_gap>>

ObsIdle == [stream |-> 0, n |-> 0, rows |-> 0, full |-> FALSE, gap |-> 0,
            done |-> FALSE]

\* The two sources of the program: the modules under src/app/ and the
\* single file src/app.rs.
Modular == "app/mod.rs"

Monolithic == "app.rs"

\* No call of process_audio_data yet.
NoCall == [id |-> 0, channels |-> 2, data |-> <<>>, pushed |-> <<>>,
           div0 |-> FALSE, panic |-> FALSE]

\* Js8App::default (mod.rs:50-73, app.rs:34-46) on a host with n input
\* devices of c interleaved channels each, for the source v: empty
\* buffers, peak 0.0, no stream, device 0 selected.
Construct(n, v, c) ==
    /\ audio_data = <<>>
    /\ row_colors = <<>>
    /\ max_value = 0
    /\ lock_owner = [m \in Mutexes |-> 0]
    /\ poisoned = {}
    /\ stream = 0
    /\ stream_state = [s \in Streams |-> "unbuilt"]
    /\ elapsed = [s \in Streams |-> 0]
    /\ pc = [s \in Streams |-> "idle"]
    /\ ui_pc = "idle"
    /\ delivered = <<>>
    /\ pushed = <<>>
    /\ rows_hist = <<>>
    /\ rows_count = 0
    /\ since_row = [s \in Streams |-> 0 - 1]
    /\ arrived_gap = [s \in Streams |-> 0 - 1]
    /\ push_gap = [s \in Streams |-> 0 - 1]
    /\ obs = ObsIdle
    /\ devices = n
    /\ selected_device_index = 0
    /\ last_start = "none"
    /\ errored = {}
    /\ variant = v
    /\ call = [NoCall EXCEPT !.channels = c]

\* The modular program on a host with MaxDevices stereo input devices.
Init == Construct(MaxDevices, Modular, 2)

\* The process lives as long as the UI (main) thread has not panicked.
Alive == ui_pc # "panicked"

\* The mono value of every complete stereo frame-slot of a frame.
Slots(data) ==
    [i \in 1..(Len(data) \div 2) |-> MonoSample(SubSeq(data, 2 * i - 1, 2 * i))]

\* The mutexes whose guard thread t holds.
Held(t) == {m \in Mutexes : lock_owner[m] = t}

\* Unwinding drops the guards of thread t: each mutex it held is released
\* and poisoned.
Unwind(t) ==
    /\ poisoned' = poisoned \cup Held(t)
    /\ lock_owner' = [m \in Mutexes |-> IF lock_owner[m] = t THEN 0
                                         ELSE lock_owner[m]]

\* Release that keeps every guard.
ReleaseNone(t) == UNCHANGED <<lock_owner, poisoned>>

\* The guards of thread t go out of scope.
Release(t) ==
    /\ lock_owner' = [m \in Mutexes |-> IF lock_owner[m] = t THEN 0
                                         ELSE lock_owner[m]]
    /\ UNCHANGED poisoned

\* The audio thread of stream s is inside <mutex>.lock() (audio.rs:53-55)
\* and another thread holds the guard.
Blocked(s) ==
    \/ pc[s] = "lock_audio_data" /\ lock_owner["audio_data"] # 0
    \/ pc[s] = "lock_row_colors" /\ lock_owner["row_colors"] # 0
    \/ pc[s] = "lock_max_value" /\ lock_owner["max_value"] # 0

\* GateOpen with a threshold of 0.016 s.
GateOpenEarly(e) == e * 10 >= Gate

\* last_update.elapsed() >= Duration::from_secs_f32(0.16)
GateOpen(e) == e >= Gate

\* --------------------------------------------------------- the observer
\* A run of callbacks of one stream, each arriving one tick (10 ms) after
\* the one before; n counts its callbacks, rows the rows they pushed, full
\* whether audio_data was full when the first of them returned, done
\* whether the latest of them has returned.  watch starts a run at the
\* arriving callback.
ObsArrive(s, watch) ==
    IF watch
    THEN [stream |-> s, n |-> 1, rows |-> 0, full |-> FALSE, gap |-> 0,
          done |-> FALSE]
    ELSE IF obs.stream = s /\ obs.n < RunLength /\ obs.gap = 1
    THEN [obs EXCEPT !.n = obs.n + 1, !.gap = 0, !.done = FALSE]
    ELSE IF obs.stream = s THEN ObsIdle
    ELSE obs

ObsReturn(o, s, pushedRow, buf) ==
    IF o.stream # s THEN o
    ELSE [o EXCEPT !.rows = o.rows + (IF pushedRow THEN 1 ELSE 0),
                   !.full = IF o.n = 1 THEN Len(buf) = fft_size ELSE o.full,
                   !.done = TRUE]

\* ------------------------------------------------------ the UI thread
\* The ids of the streams built so far are 1..Built.
Built == Cardinality({s \in Streams : stream_state[s] # "unbuilt"})

\* StartAudioStream emptying the shared buffers and resetting the peak.
StartAudioStreamClearing ==
    /\ Alive
    /\ ui_pc = "idle"
    /\ selected_device_index < devices
    /\ Built < MaxStreams
    /\ stream_state' = [stream_state EXCEPT ![Built + 1] = "playing"]
    /\ elapsed' = [elapsed EXCEPT ![Built + 1] = 0]
    /\ ui_pc' = "played"
    /\ audio_data' = <<>>
    /\ row_colors' = <<>>
    /\ max_value' = 0
    /\ UNCHANGED <<locks, stream, host, pc, history, gaps, obs>>

\* start_audio_stream up to and including stream.play() (audio.rs:9-86):
\* a new stream with its own last_update = Instant::now() is playing; the
\* shared buffers are cloned handles, nothing is cleared.
StartAudioStream ==
    /\ Alive
    /\ ui_pc = "idle"
    /\ selected_device_index < devices
    /\ Built < MaxStreams
    /\ stream_state' = [stream_state EXCEPT ![Built + 1] = "playing"]
    /\ elapsed' = [elapsed EXCEPT ![Built + 1] = 0]
    /\ ui_pc' = "played"
    /\ UNCHANGED <<core, locks, stream, host, pc, history, gaps, obs>>

\* The ways start_audio_stream ends without a new stream: the panic of
\* self.devices[self.selected_device_index] on an empty list (audio.rs:12)
\* and the three early returns after an eprintln (audio.rs:16-19, 77-80,
\* 83-86).
StartFailures == {"no_devices", "config", "build", "play"}

\* start_audio_stream failing in the way `kind`.  An early return leaves
\* every field of Js8App as it was; a stream that was built but did not
\* play is dropped on return and never ran.
StartAudioStreamFail(kind) ==
    /\ Alive
    /\ ui_pc = "idle"
    /\ kind \in StartFailures
    /\ (kind = "no_devices") <=> (selected_device_index >= devices)
    /\ ui_pc' = IF kind = "no_devices" THEN "panicked" ELSE ui_pc
    /\ last_start' = kind
    /\ UNCHANGED <<core, locks, stream, stream_state, devices,
                   selected_device_index, errored, variant, elapsed, pc,
                   history, gaps, obs>>

\* The device ComboBox of update_ui (ui.rs:17-32):
\* app.devices[app.selected_device_index] panics on an empty list;
\* otherwise the user may select device i.
DeviceCombo(i) ==
    /\ Alive
    /\ ui_pc = "idle"
    /\ IF devices = 0
       THEN ui_pc' = "panicked" /\ UNCHANGED selected_device_index
       ELSE /\ i \in 0..(devices - 1)
            /\ selected_device_index' = i
            /\ UNCHANGED ui_pc
    /\ UNCHANGED <<core, locks, stream, stream_state, devices, last_start,
                   errored, variant, elapsed, pc, history, gaps, obs>>

\* error_callback of stream s (audio.rs:70-72): eprintln and nothing else.
StreamError(s) ==
    /\ Alive
    /\ stream_state[s] = "playing"
    /\ errored' = errored \cup {s}
    /\ UNCHANGED <<core, locks, stream, stream_state, devices,
                   selected_device_index, last_start, variant, elapsed, pc,
                   ui_pc, history, gaps, obs>>

\* self.stream = Some(stream) (audio.rs:88): the previous handle, if any, is
\* dropped, which waits for a running callback of it to return and destroys
\* its audio thread and its closure (with the closure's last_update).
StoreStream ==
    /\ Alive
    /\ ui_pc = "played"
    /\ stream # 0 => pc[stream] \in {"idle", "panicked"}
    /\ stream' = Built
    /\ stream_state' = [s \in Streams |->
            IF s = stream THEN "dropped" ELSE stream_state[s]]
    /\ pc' = [s \in Streams |-> IF s = stream THEN "idle" ELSE pc[s]]
    /\ elapsed' = [s \in Streams |-> IF s = stream THEN 0 ELSE elapsed[s]]
    /\ since_row' = [s \in Streams |->
            IF s = stream THEN 0 - 1 ELSE since_row[s]]
    /\ arrived_gap' = [s \in Streams |->
            IF s = stream THEN 0 - 1 ELSE arrived_gap[s]]
    /\ push_gap' = [s \in Streams |->
            IF s = stream THEN 0 - 1 ELSE push_gap[s]]
    /\ obs' = IF stream # 0 /\ obs.stream = stream THEN ObsIdle ELSE obs
    /\ ui_pc' = "idle"
    /\ last_start' = "ok"
    /\ UNCHANGED <<core, locks, history, devices, selected_device_index,
                   errored, variant>>

\* let max_rows_to_display = 100;
max_rows_to_display == MaxRows

\* DrainOldRows keeping one row fewer than process_audio_data does.
DrainOldRowsShort(rows) == LastN(max_rows_to_display - 1, rows)

\* row_colors.drain(0..(len - max_rows_to_display)) when
\* len > max_rows_to_display.
DrainOldRows(rows) == LastN(max_rows_to_display, rows)

\* draw_waterfall, visualization.rs:45-48: row_colors.lock().unwrap(), then
\* the early return on an empty history (the guard is dropped at once).
DrawWaterfallLock ==
    /\ Alive
    /\ ui_pc = "idle"
    /\ lock_owner["row_colors"] = 0
    /\ IF "row_colors" \in poisoned
       THEN ui_pc' = "panicked" /\ UNCHANGED lock_owner
       ELSE IF row_colors = <<>>
       THEN UNCHANGED <<ui_pc, lock_owner>>
       ELSE /\ ui_pc' = "painting"
            /\ lock_owner' = [lock_owner EXCEPT !["row_colors"] = UiThread]
    /\ UNCHANGED <<core, poisoned, session, elapsed, pc, history, gaps, obs>>

\* draw_waterfall, visualization.rs:50-87: the painter.rect_filled calls
\* have been issued with the guard alive; old rows are drained and the
\* guard is dropped on return.
DrawWaterfallFinish ==
    /\ Alive
    /\ ui_pc = "painting"
    /\ row_colors' = DrainOldRows(row_colors)
    /\ Release(UiThread)
    /\ ui_pc' = "idle"
    /\ UNCHANGED <<audio_data, max_value, session, elapsed, pc, history,
                   gaps, obs>>

\* draw_bar_chart, visualization.rs:10-13.
DrawBarChartLock ==
    /\ Alive
    /\ ui_pc = "idle"
    /\ lock_owner["row_colors"] = 0
    /\ IF "row_colors" \in poisoned
       THEN ui_pc' = "panicked" /\ UNCHANGED lock_owner
       ELSE IF row_colors = <<>>
       THEN UNCHANGED <<ui_pc, lock_owner>>
       ELSE /\ ui_pc' = "painting_bar"
            /\ lock_owner' = [lock_owner EXCEPT !["row_colors"] = UiThread]
    /\ UNCHANGED <<core, poisoned, session, elapsed, pc, history, gaps, obs>>

\* draw_bar_chart, visualization.rs:15-37: the bars of row_colors[0] have
\* been painted with the guard alive; it is dropped on return.
DrawBarChartFinish ==
    /\ Alive
    /\ ui_pc = "painting_bar"
    /\ Release(UiThread)
    /\ ui_pc' = "idle"
    /\ UNCHANGED <<core, session, elapsed, pc, history, gaps, obs>>

\* One step of a render frame.
RenderStep ==
    \/ DrawWaterfallLock
    \/ DrawWaterfallFinish
    \/ DrawBarChartLock
    \/ DrawBarChartFinish

\* --------------------------------------------------- the audio threads
\* The history of delivered frame-slots after one more frame.  keep names
\* the histories a specification records beyond pushed and rows_hist:
\* "delivered" and "gaps" (since_row, arrived_gap, push_gap).
Deliver(data, keep) ==
    IF "delivered" \in keep
    THEN LastN(fft_size, delivered \o Slots(data)) ELSE delivered

\* The hardware invokes input_callback of stream s (audio.rs:51-52) while
\* the gate is closed: the closure returns without reading the frame or
\* touching anything.
CallbackGated(s, watch) ==
    /\ Alive
    /\ stream_state[s] = "playing"
    /\ pc[s] = "idle"
    /\ ~GateOpen(elapsed[s])
    /\ obs' = ObsReturn(ObsArrive(s, watch), s, FALSE, audio_data)
    /\ UNCHANGED <<core, locks, session, elapsed, pc, ui_pc, history, gaps>>

\* CallbackGated with the frame the hardware handed over recorded in the
\* history.
CallbackGatedFrame(s, data) ==
    /\ Alive
    /\ stream_state[s] = "playing"
    /\ pc[s] = "idle"
    /\ ~GateOpen(elapsed[s])
    /\ delivered' = Deliver(data, {"delivered"})
    /\ UNCHANGED <<core, locks, session, elapsed, pc, ui_pc, pushed,
                   rows_hist, rows_count, call, gaps, obs>>

\* The hardware invokes input_callback of stream s with the gate open: the
\* closure goes on to take the three locks.
CallbackEnter(s, watch) ==
    /\ Alive
    /\ stream_state[s] = "playing"
    /\ pc[s] = "idle"
    /\ GateOpen(elapsed[s])
    /\ pc' = [pc EXCEPT ![s] = "lock_audio_data"]
    /\ arrived_gap' = [arrived_gap EXCEPT ![s] = since_row[s]]
    /\ obs' = ObsArrive(s, watch)
    /\ UNCHANGED <<core, locks, session, elapsed, ui_pc, history, since_row,
                   push_gap>>

\* <mutex>.lock().unwrap() by the audio thread of stream s (audio.rs:53-55):
\* blocks while another thread holds the guard; panics on a poisoned mutex.
Lock(s, at, m, next) ==
    /\ Alive
    /\ pc[s] = at
    /\ lock_owner[m] = 0
    /\ IF m \in poisoned
       THEN /\ Unwind(s)
            /\ pc' = [pc EXCEPT ![s] = "panicked"]
            /\ obs' = IF obs.stream = s THEN ObsIdle ELSE obs
       ELSE /\ lock_owner' = [lock_owner EXCEPT ![m] = s]
            /\ pc' = [pc EXCEPT ![s] = next]
            /\ UNCHANGED <<poisoned, obs>>
    /\ UNCHANGED <<core, session, elapsed, ui_pc, history, gaps>>

LockAudioData(s) == Lock(s, "lock_audio_data", "audio_data", "lock_row_colors")

LockRowColors(s) == Lock(s, "lock_row_colors", "row_colors", "lock_max_value")

LockMaxValue(s) == Lock(s, "lock_max_value", "max_value", "process")

\* audio.rs:56-66 with all three guards held: *max_value =
\* process_audio_data(..); last_update = Instant::now(); the guards are
\* dropped.  The frame is read only here, so it is drawn here.  When
\* process_audio_data panics, the store to max_value and the update of
\* last_update do not happen and the unwinding poisons the three mutexes.
Process(s, data, keep) ==
    /\ Alive
    /\ pc[s] = "process"
    /\ \E r \in {process_audio_data(max_value, data, audio_data, row_colors)} :
        LET gotRow == r.row # <<>>
        IN  /\ audio_data' = r.audio_data
            /\ row_colors' = r.row_colors
            /\ delivered' = Deliver(data, keep)
            /\ pushed' = LastN(fft_size, pushed \o r.pushed)
            /\ rows_hist' = LastN(MaxRows, rows_hist \o r.row)
            /\ rows_count' = Min(MaxRows + 1, rows_count + Len(r.row))
            /\ IF r.panic
               THEN /\ Unwind(s)
                    /\ pc' = [pc EXCEPT ![s] = "panicked"]
                    /\ obs' = IF obs.stream = s THEN ObsIdle ELSE obs
                    /\ UNCHANGED <<max_value, elapsed, gaps>>
               ELSE /\ max_value' = r.ret
                    /\ elapsed' = [elapsed EXCEPT ![s] = 0]
                    /\ Release(s)
                    /\ pc' = [pc EXCEPT ![s] = "idle"]
                    /\ since_row' = IF gotRow /\ "gaps" \in keep
                                    THEN [since_row EXCEPT ![s] = 0]
                                    ELSE since_row
                    /\ push_gap' = IF gotRow /\ "gaps" \in keep
                                   THEN [push_gap EXCEPT ![s] = arrived_gap[s]]
                                   ELSE push_gap
                    /\ obs' = ObsReturn(obs, s, gotRow, r.audio_data)
                    /\ UNCHANGED arrived_gap
    /\ UNCHANGED <<session, ui_pc, call>>

\* d ticks (d * 10 ms) pass.
Tick(d) ==
    /\ Alive
    /\ elapsed' = [s \in Streams |->
            IF stream_state[s] = "playing"
            THEN Min(Gate, elapsed[s] + d) ELSE elapsed[s]]
    /\ since_row' = [s \in Streams |->
            IF since_row[s] < 0 THEN since_row[s]
            ELSE Min(Gate, since_row[s] + d)]
    /\ obs' = IF obs.stream = 0 THEN obs
              ELSE [obs EXCEPT !.gap = Min(2, obs.gap + d)]
    /\ UNCHANGED <<core, locks, session, pc, ui_pc, history, arrived_gap,
                   push_gap>>

\* ------------------------------------------------------ specifications
\* Spec: every frame and every interleaving of the UI thread with the audio
\* threads, time passing a whole gate interval at a time (a callback reads
\* the clock only through the gate comparison).
Next ==
    \/ StartAudioStream
    \/ StoreStream
    \/ DrawWaterfallLock
    \/ DrawWaterfallFinish
    \/ DrawBarChartLock
    \/ DrawBarChartFinish
    \/ \E s \in Streams : CallbackGated(s, FALSE)
    \/ \E s \in Streams : CallbackEnter(s, FALSE)
    \/ \E s \in Streams : LockAudioData(s)
    \/ \E s \in Streams : LockRowColors(s)
    \/ \E s \in Streams : LockMaxValue(s)
    \/ \E s \in Streams, data \in Frames : Process(s, data, {})
    \/ Tick(Gate)

Spec == Init /\ [][Next]_vars

\* SpecDelivered: Spec with the history of delivered frame-slots kept.
NextDelivered ==
    \/ StartAudioStream
    \/ StoreStream
    \/ DrawWaterfallLock
    \/ DrawWaterfallFinish
    \/ \E s \in Streams, data \in Frames : CallbackGatedFrame(s, data)
    \/ \E s \in Streams : CallbackEnter(s, FALSE)
    \/ \E s \in Streams : LockAudioData(s)
    \/ \E s \in Streams : LockRowColors(s)
    \/ \E s \in Streams : LockMaxValue(s)
    \/ \E s \in Streams, data \in Frames : Process(s, data, {"delivered"})
    \/ Tick(Gate)

SpecDelivered == Init /\ [][NextDelivered]_vars

\* SpecGate: the gate seen tick by tick (10 ms at a time), with the gaps
\* between row pushes recorded.  The gate does not look at the samples, so
\* the frames are those of one value throughout, of every length.
GateFrames == {[i \in 1..k |-> v] : k \in 0..MaxDataLen, v \in SampleVals}

NextGate ==
    \/ StartAudioStream
    \/ StoreStream
    \/ DrawWaterfallLock
    \/ DrawWaterfallFinish
    \/ \E s \in Streams : CallbackGated(s, FALSE)
    \/ \E s \in Streams : CallbackEnter(s, FALSE)
    \/ \E s \in Streams : LockAudioData(s)
    \/ \E s \in Streams : LockRowColors(s)
    \/ \E s \in Streams : LockMaxValue(s)
    \/ \E s \in Streams, data \in GateFrames : Process(s, data, {"gaps"})
    \/ Tick(1)

SpecGate == Init /\ [][NextGate]_vars

\* SpecRun: one stream fed frames of a full buffer's worth each, tick by
\* tick, with the observer of evenly spaced callbacks.
RunFrames == {[i \in 1..(2 * fft_size) |-> v] : v \in SampleVals}

FirstStart == Built = 0 /\ StartAudioStream

NextRun ==
    \/ FirstStart
    \/ StoreStream
    \/ DrawWaterfallLock
    \/ DrawWaterfallFinish
    \/ \E s \in Streams, w \in BOOLEAN : CallbackGated(s, w)
    \/ \E s \in Streams, w \in BOOLEAN : CallbackEnter(s, w)
    \/ \E s \in Streams : LockAudioData(s)
    \/ \E s \in Streams : LockRowColors(s)
    \/ \E s \in Streams : LockMaxValue(s)
    \/ \E s \in Streams, data \in RunFrames : Process(s, data, {})
    \/ Tick(1)

SpecRun == Init /\ [][NextRun]_vars

\* SpecCalls: process_audio_data examined call by call, for either source
\* of the program, on every frame of up to MaxCallLen values delivered by
\* devices of 1..MaxChannels interleaved channels.
Channels == 1..MaxChannels

InitCalls ==
    \E v \in {Modular, Monolithic}, c \in Channels :
        Construct(MaxDevices, v, c)

CallFrames == SeqsUpTo(SampleVals, MaxCallLen)

\* The state after the call whose outcome is the record r on a frame data
\* of the device's channels: *max_value = process_audio_data(..)
\* (audio.rs:56-64, app.rs:99-106).  A panic leaves max_value as it was and
\* ends the calls.
Called(r, data) ==
    /\ ~call.panic
    /\ Len(data) % call.channels = 0
    /\ audio_data' = r.audio_data
    /\ row_colors' = r.row_colors
    /\ max_value' = IF r.panic THEN max_value ELSE r.ret
    /\ call' = [id |-> 1 + (call.id % 2), channels |-> call.channels,
                data |-> data,
                pushed |-> r.pushed, div0 |-> r.div0, panic |-> r.panic]
    /\ UNCHANGED <<locks, session, elapsed, pc, ui_pc, delivered, pushed,
                   rows_hist, rows_count, gaps, obs>>

\* One call of process_audio_data of app/audio.rs.
CallModular(data) ==
    /\ variant = Modular
    /\ Called(process_audio_data(max_value, data, audio_data, row_colors),
              data)

\* One call of process_audio_data of app.rs.
CallMonolithic(data) ==
    /\ variant = Monolithic
    /\ Called(app_process_audio_data(max_value, data, audio_data,
                                     row_colors), data)

NextCalls ==
    \/ \E data \in CallFrames : CallModular(data)
    \/ \E data \in CallFrames : CallMonolithic(data)

SpecCalls == InitCalls /\ [][NextCalls]_vars

\* SpecSession: the life of the capture session on a host with any number
\* of input devices: device selection, starts that succeed or fail, stream
\* errors.  Every frame fills the whole buffer.
InitSession == \E n \in 0..MaxDevices : Construct(n, Modular, 2)

NextSession ==
    \/ \E i \in 0..(MaxDevices - 1) : DeviceCombo(i)
    \/ StartAudioStream
    \/ \E kind \in StartFailures : StartAudioStreamFail(kind)
    \/ StoreStream
    \/ \E s \in Streams : StreamError(s)
    \/ DrawWaterfallLock
    \/ DrawWaterfallFinish
    \/ \E s \in Streams : CallbackEnter(s, FALSE)
    \/ \E s \in Streams : LockAudioData(s)
    \/ \E s \in Streams : LockRowColors(s)
    \/ \E s \in Streams : LockMaxValue(s)
    \/ \E s \in Streams, data \in RunFrames : Process(s, data, {})
    \/ Tick(Gate)

SpecSession == InitSession /\ [][NextSession]_vars

\* The callback of stream s leaves audio.rs:56-66, whatever the frame: it
\* returns or it panics.  Every such step is a step of Process.
CallbackLeaves(s) ==
    /\ pc[s] = "process"
    /\ \E at \in {"idle", "panicked"} : pc' = [pc EXCEPT ![s] = at]

\* The steps the program takes by itself once they are possible: a thread
\* that can run does run, and a thread waiting for row_colors, which the
\* render thread holds for a part of each frame only, gets it.
Fairness ==
    /\ WF_vars(StoreStream)
    /\ WF_vars(DrawWaterfallFinish)
    /\ \A s \in Streams :
        /\ WF_vars(LockAudioData(s))
        /\ SF_vars(LockRowColors(s))
        /\ WF_vars(LockMaxValue(s))
        /\ WF_pc(CallbackLeaves(s))

SpecSessionFair == SpecSession /\ Fairness

\* SpecLockFair: the locking of the render thread and of the callbacks of
\* up to MaxStreams streams, a restart included, on frames of every length
\* (an odd one panics and poisons the mutexes), under Fairness.
NextLock ==
    \/ StartAudioStream
    \/ StoreStream
    \/ DrawWaterfallLock
    \/ DrawWaterfallFinish
    \/ \E s \in Streams : CallbackEnter(s, FALSE)
    \/ \E s \in Streams : LockAudioData(s)
    \/ \E s \in Streams : LockRowColors(s)
    \/ \E s \in Streams : LockMaxValue(s)
    \/ \E s \in Streams, data \in GateFrames : Process(s, data, {})
    \/ Tick(Gate)

SpecLockFair == Init /\ [][NextLock]_vars /\ Fairness

\* SpecLive: streams that keep delivering frames of whole stereo pairs, the
\* render thread and restarts included.  The frames are non-empty, of even
\* length and of one value throughout.
LiveFrames == {f \in GateFrames : Len(f) > 0 /\ Len(f) % 2 = 0}

NextLive ==
    \/ StartAudioStream
    \/ StoreStream
    \/ DrawWaterfallLock
    \/ DrawWaterfallFinish
    \/ \E s \in Streams : CallbackGated(s, FALSE)
    \/ \E s \in Streams : CallbackEnter(s, FALSE)
    \/ \E s \in Streams : LockAudioData(s)
    \/ \E s \in Streams : LockRowColors(s)
    \/ \E s \in Streams : LockMaxValue(s)
    \/ \E s \in Streams, data \in LiveFrames : Process(s, data, {"gaps"})
    \/ Tick(Gate)

\* Time advances, and the host keeps invoking input_callback of every
\* stream that is playing (cpal's audio thread, audio.rs:75 and 83).
Delivering ==
    /\ WF_vars(Tick(Gate))
    /\ \A s \in Streams : WF_vars(CallbackEnter(s, FALSE))

SpecLive == Init /\ [][NextLive]_vars /\ Fairness /\ Delivering

\* ---------------------------------------------------------------- claims
\* C1: no audio sample is dropped under the gate: after any sequence of
\* callbacks audio_data holds the last min(fft_size, slots delivered) mono
\* samples of the whole delivered stream.
C1_NoSampleDropped == audio_data = delivered

\* C2: audio_data never holds more than fft_size samples, and once fft_size
\* samples have been pushed it holds exactly the last fft_size pushed
\* samples in arrival order.
C2_RingBuffer ==
    /\ Len(audio_data) <= fft_size
    /\ Len(pushed) = fft_size => audio_data = pushed

\* C3: max_value never decreases: after every step it is greater than or
\* equal to what it was before.
C3_PeakMonotone == [][max_value' >= max_value]_vars

\* C4: row_colors never holds more than MaxRows rows, and once more than
\* MaxRows rows have been pushed it holds exactly the MaxRows most recently
\* pushed rows in push order.
C4_RowsBounded ==
    /\ Len(row_colors) <= MaxRows
    /\ rows_count > MaxRows =>
            Len(row_colors) = MaxRows /\ row_colors = rows_hist

\* C4 witness: more than MaxRows rows have been pushed, the oldest kept row
\* differs from the newest, and a render frame is in progress.
C4_Witness ==
    /\ rows_count > MaxRows
    /\ Len(row_colors) = MaxRows
    /\ row_colors[1] # row_colors[MaxRows]
    /\ ui_pc = "painting"

\* C5: a callback handed a frame of odd length returns normally: no audio
\* thread panics and no mutex is left poisoned.
C5_OddFrameNoPanic ==
    /\ poisoned = {}
    /\ \A s \in Streams : pc[s] # "panicked"

\* C6: within one stream, a callback that pushes a row arrived at least
\* Gate ticks (160 ms) after that stream's previous row push, hence two
\* consecutive row pushes, and the arrivals of the callbacks that made
\* them, are at least 160 ms apart.
C6_RowsGated ==
    \A s \in Streams : push_gap[s] < 0 \/ push_gap[s] >= Gate

\* C6 witness: a stream has pushed a second row.
C6_Witness == \E s \in Streams : push_gap[s] >= Gate

\* C7: RunLength (10) consecutive callbacks 10 ms apart, the first of which
\* leaves audio_data full, push at least 1 and at most 2 rows.
C7_RunRows ==
    (obs.n = RunLength /\ obs.done /\ obs.full) => obs.rows \in {1, 2}

\* C8: no step of a render frame changes audio_data, max_value or
\* row_colors.
C8_RenderReadOnly == [][RenderStep => UNCHANGED core]_vars

\* C8 witness: draw_waterfall is painting a history that is at capacity
\* after rows have been evicted from it.
C8_Witness ==
    /\ ui_pc = "painting"
    /\ rows_count > MaxRows
    /\ Len(row_colors) = max_rows_to_display

\* C9: the UI thread never issues painter calls while it holds the
\* row_colors guard.
C9_NoDrawUnderLock ==
    ~(ui_pc \in {"painting", "painting_bar"}
        /\ lock_owner["row_colors"] = UiThread)

\* C10: every row of row_colors is fully formed (one intensity per bin),
\* the rows are in the order their transforms completed, and row_colors
\* does not change under a render frame that is painting it.
C10_RowsConsistent ==
    /\ [](/\ \A i \in 1..Len(row_colors) :
                /\ Len(row_colors[i]) = fft_size
                /\ \A k \in 1..fft_size : row_colors[i][k] \in 0..255
          /\ row_colors = LastN(Len(row_colors), rows_hist))
    /\ [][ui_pc = "painting" /\ ui_pc' = "painting" =>
            row_colors' = row_colors]_vars

\* C10 witness: draw_waterfall is painting two different rows while a
\* capture callback waits for the row_colors mutex.
C10_Witness ==
    /\ ui_pc = "painting"
    /\ Len(row_colors) >= 2
    /\ row_colors[1] # row_colors[2]
    /\ \E s \in Streams : pc[s] = "lock_row_colors"

\* C11: at most one capture session is active: no two input streams
\* created by start_audio_stream are playing at the same time.
C11_OneSession ==
    Cardinality({s \in Streams : stream_state[s] = "playing"}) <= 1

\* C12: a start that failed (no input devices, no default input config,
\* build_input_stream or play failing) leaves the process alive and the
\* session Idle: self.stream is None and no stream is playing.  It is read
\* when start_audio_stream has returned, not inside a later start.
C12_FailedStartIdle ==
    (last_start \in StartFailures /\ ui_pc # "played") =>
        /\ Alive
        /\ stream = 0
        /\ \A s \in Streams : stream_state[s] # "playing"

\* C13: after the error callback of a stream has run, the handle of that
\* stream is eventually dropped, no callback of it updates the shared state
\* any more, and the process stays alive.
C13_ErrorStops ==
    /\ \A s \in Streams :
            (s \in errored) ~> (stream # s /\ stream_state[s] # "playing")
    /\ [][\A s \in errored :
            (pc[s] = "process" /\ pc'[s] = "idle") => UNCHANGED core]_vars
    /\ [](errored # {} => Alive)

\* C18: no step of start_audio_stream (the start itself, the store of the
\* new handle with the drop of the old one, a failed start) changes
\* audio_data, row_colors or max_value.
C18_StartKeepsPipeline ==
    [][(\/ ui_pc = "idle" /\ ui_pc' = "played"
        \/ ui_pc = "played" /\ ui_pc' = "idle"
        \/ last_start' # last_start) => UNCHANGED core]_vars

\* C18 witness: a second stream has been started on another device after
\* a failed start, with rows, samples and a peak of the first stream in
\* place.
C18_Witness ==
    /\ ui_pc = "played"
    /\ Built = 2
    /\ stream = 1
    /\ last_start = "config"
    /\ selected_device_index # 0
    /\ row_colors # <<>>
    /\ audio_data # <<>>
    /\ max_value > 0

\* C14: a call of process_audio_data made while the running peak is 0
\* evaluates no division by zero, and every bin of the row it pushes has
\* intensity 0.
C14_ZeroPeakRow ==
    [][(/\ call'.id # call.id
        /\ max_value = 0
        /\ ~call'.panic
        /\ Len(audio_data') = fft_size)
       => /\ ~call'.div0
          /\ \A k \in 1..fft_size : row_colors'[Len(row_colors')][k] = 0]_vars

\* C15: a call of process_audio_data that leaves audio_data shorter than
\* fft_size leaves row_colors and max_value as they were.
C15_NotFullNoEffect ==
    [][(call'.id # call.id /\ Len(audio_data') < fft_size)
       => (row_colors' = row_colors /\ max_value' = max_value)]_vars

\* C15 witness: a call has pushed samples, the buffer is not full and
\* there is no row.
C15_Witness ==
    /\ call.id # 0
    /\ ~call.panic
    /\ call.pushed # <<>>
    /\ Len(audio_data) < fft_size
    /\ row_colors = <<>>
    /\ max_value = 0

\* C16: for a frame of c interleaved channels, process_audio_data pushes
\* one mono sample per group of c values, the mean of the group.
C16_ActualChannels ==
    call.id # 0 =>
        /\ ~call.panic
        /\ call.pushed =
            [i \in 1..(Len(call.data) \div call.channels) |->
                SumTo(SubSeq(call.data, (i - 1) * call.channels + 1,
                             i * call.channels), call.channels)
                    \div call.channels]

\* C17: for a stereo frame [L0,R0,L1,R1,...] of length 2n,
\* process_audio_data pushes the n samples (Li+Ri)/2 in order: they are
\* what the call pushed, and audio_data is what it was followed by them,
\* cut to its last fft_size samples.
C17_StereoDownmix ==
    [][(call'.id # call.id /\ call'.channels = 2)
       => LET data == call'.data
              mono == [i \in 1..(Len(data) \div 2) |->
                          (data[2 * i - 1] + data[2 * i]) \div 2]
          IN  /\ ~call'.panic
              /\ call'.pushed = mono
              /\ audio_data' = LastN(fft_size, audio_data \o mono)]_vars

\* C17 witness: a stereo frame of two slots with different means has been
\* pushed into a buffer that is full.
C17_Witness ==
    /\ call.channels = 2
    /\ Len(call.data) = 4
    /\ Len(call.pushed) = 2
    /\ call.pushed[1] # call.pushed[2]
    /\ Len(audio_data) = fft_size
    /\ audio_data[fft_size] = call.pushed[2]

\* C19: the locking is deadlock-free: whenever a mutex is held, some
\* thread that holds a mutex is not blocked on another one (the render
\* thread takes no second mutex), and every mutex that is held is
\* eventually released.
C19_DeadlockFree ==
    /\ [](\A m \in Mutexes : lock_owner[m] # 0 =>
            \/ Held(UiThread) # {}
            \/ \E s \in Streams : Held(s) # {} /\ ~Blocked(s))
    /\ \A m \in Mutexes : (lock_owner[m] # 0) ~> (lock_owner[m] = 0)

\* C19 witness: two streams overlap during a restart: the callback of one
\* holds audio_data and waits for row_colors, the callback of the other
\* waits for audio_data, and the UI thread waits to drop the old stream.
C19_Witness ==
    /\ ui_pc = "played"
    /\ \E s, u \in Streams :
        /\ s # u
        /\ lock_owner["audio_data"] = s
        /\ pc[s] = "lock_row_colors"
        /\ pc[u] = "lock_audio_data"
        /\ stream \in {s, u}

\* C20: a panic inside one capture callback does not stop the others: no
\* later lock().unwrap() fails on a poisoned mutex, neither the one of a
\* render frame (the UI thread stays alive and goes on drawing) nor those
\* of a capture callback.
C20_PoisonTolerated ==
    [][/\ ui_pc' # "panicked"
       /\ \A s \in Streams :
            pc[s] \in {"lock_audio_data", "lock_row_colors", "lock_max_value"}
                => pc'[s] # "panicked"]_vars

\* ------------------------------------------------------------ C21
\* C21: the length of audio_data never decreases from one callback to the
\* next, once it has reached fft_size it is fft_size after every later
\* callback, and from the first full buffer on every callback that passed
\* the 160 ms gate has pushed one row to row_colors when it ends.
C21_FullStaysFull ==
    [][/\ Len(audio_data') >= Len(audio_data)
       /\ Len(audio_data) = fft_size => Len(audio_data') = fft_size
       /\ \A s \in Streams :
            (/\ Len(audio_data) = fft_size
             /\ pc[s] \notin {"idle", "panicked"}
             /\ pc'[s] \in {"idle", "panicked"})
            => (since_row'[s] = 0 /\ since_row[s] # 0)]_vars

\* ------------------------------------------------------------ C22
\* A stream has been started and is delivering.
Playing == \E s \in Streams : stream_state[s] = "playing"

\* C22: once a stream is playing and keeps delivering non-empty frames of
\* even length, audio_data eventually becomes full, a first row is
\* eventually pushed to row_colors, and rows are pushed again and again.
C22_RowsKeepComing ==
    /\ Playing ~> (Len(audio_data) = fft_size)
    /\ Playing ~> (rows_count > 0)
    /\ (<>Playing) =>
            []<><<\E s \in Streams :
                    since_row'[s] = 0 /\ since_row[s] # 0>>_vars

\* C22 witness: a playing stream has just pushed a row, not its first, into
\* a history from which rows have been evicted, the buffer being full.
C22_Witness ==
    \E s \in Streams :
        /\ stream_state[s] = "playing"
        /\ since_row[s] = 0
        /\ push_gap[s] >= Gate
        /\ Len(audio_data) = fft_size
        /\ rows_count > MaxRows

====
